---- MODULE Spec2Model ----
(***************************************************************************)
(* Verification model of the asynchronous video-processing pipeline:       *)
(* the BullMQ job of one uploaded video, the two Worker instances the      *)
(* backend creates, processVideo (workers/video.processor.js) with the     *)
(* services it drives (transcription, chunking, STT, Gemini), the          *)
(* VideoRecord in MongoDB and the temporary files on disk.                 *)
(*                                                                         *)
(* Time is counted in ticks of TickMs milliseconds.  Remote calls, the     *)
(* database and Redis are the environment: every call has the outcomes     *)
(* it can have (success, error), chosen nondeterministically.              *)
(***************************************************************************)
EXTENDS Integers, Sequences, FiniteSets, TLC

\* ------------------------------------------------------------------------
\* Program constants
\* ------------------------------------------------------------------------
TickMs == 15 * 60 * 1000
lockDuration == 1800000
StaleWindowMs == 30 * 60 * 1000
maxStalledCount == 3
attempts == 3
chunkDurationDefault == 30
FallbackDuration == 300

LockTicks == lockDuration \div TickMs
StaleTicks == StaleWindowMs \div TickMs
MaxAge == IF LockTicks > StaleTicks THEN LockTicks ELSE StaleTicks

\* The two Worker instances on the 'video-processing' queue.
Workers == {"videoProcessorWorker", "workerManager"}

NoWorker == "none"

VARIABLES
  video,      \* the VideoRecord document (status and processed content)
  procAge,    \* ticks since video.updatedAt, capped at MaxAge; it is only
              \* read, and only kept, while the record is in processing
  job,        \* the BullMQ job whose id is the video id
  wk,         \* per worker: position in processVideo and its locals
  disk,       \* temporary files present in TEMP_DIR
  env,        \* how the remote services behave in this behaviour
  call        \* a service function applied on its own: arguments, progress
              \* of its loop, value returned

vars == <<video, procAge, job, wk, disk, env, call>>

pipelineVars == <<video, procAge, job, wk, disk, env>>

Min(a, b) == IF a < b THEN a ELSE b

\* ------------------------------------------------------------------------
\* Media segmenter: AudioChunkingService (services/audio-chucking.service.js)
\* Durations are whole seconds.
\* ------------------------------------------------------------------------
\* Math.ceil(duration / chunkDuration) for duration >= 0, chunkDuration # 0
totalChunks(duration, chunkDuration) ==
  IF chunkDuration > 0
  THEN (duration + chunkDuration - 1) \div chunkDuration
  ELSE - (duration \div (- chunkDuration))

\* the object pushed for loop index i once ffmpeg has written the chunk file
ChunkAt(i, duration, chunkDuration) ==
  [ path      |-> <<"chunk", i>>,
    index     |-> i,
    startTime |-> i * chunkDuration,
    endTime   |-> Min(i * chunkDuration + chunkDuration, duration),
    duration  |-> Min(chunkDuration, duration - i * chunkDuration) ]

\* the chunks array after n successful loop iterations
RECURSIVE ChunksUpTo(_, _, _)
ChunksUpTo(n, duration, chunkDuration) ==
  IF n = 0 THEN << >>
  ELSE Append(ChunksUpTo(n - 1, duration, chunkDuration),
              ChunkAt(n - 1, duration, chunkDuration))

\* ------------------------------------------------------------------------
\* Timestamps: formatTimestamp of the STT service (no padding of the first
\* field) and of the transcription service (every field padded to two
\* digits).  A formatted timestamp is the tuple of its fields, each field a
\* pair <<value, minimum width>>.
\* ------------------------------------------------------------------------
sttFormatTimestamp(seconds) ==
  LET hrs  == seconds \div 3600
      mins == (seconds % 3600) \div 60
      secs == seconds % 60
  IN IF hrs > 0 THEN << <<hrs, 1>>, <<mins, 2>>, <<secs, 2>> >>
     ELSE << <<mins, 1>>, <<secs, 2>> >>

formatTimestamp(seconds) ==
  LET hrs  == seconds \div 3600
      mins == (seconds % 3600) \div 60
      secs == seconds % 60
  IN IF hrs > 0 THEN << <<hrs, 2>>, <<mins, 2>>, <<secs, 2>> >>
     ELSE << <<mins, 2>>, <<secs, 2>> >>

\* ------------------------------------------------------------------------
\* Transcription client: STTService.transcribeAudioChunks
\* (services/stt.service.js).  The text the backend returns for a chunk is
\* opaque: <<"text", index>>.
\* ------------------------------------------------------------------------
\* entry pushed when transcribeAudioChunk resolved (its timestamp field,
\* the wall-clock time of the push, is left out)
SuccessEntry(chunk) ==
  [ text       |-> <<"text", chunk.index>>,
    startTime  |-> chunk.startTime,
    endTime    |-> chunk.endTime,
    duration   |-> chunk.duration,
    chunkIndex |-> chunk.index,
    error      |-> FALSE ]

\* FailedEntry with a placeholder text that names neither the time range
\* nor the error
FailedEntry_bare(chunk, message) ==
  [ text       |-> <<"Audio segment", "could not be transcribed">>,
    startTime  |-> chunk.startTime,
    endTime    |-> chunk.endTime,
    duration   |-> chunk.duration,
    chunkIndex |-> chunk.index,
    error      |-> TRUE,
    errorMessage |-> message ]

\* entry pushed by the catch block when transcribeAudioChunk rejected
FailedEntry(chunk, message) ==
  [ text       |-> <<"Audio segment", sttFormatTimestamp(chunk.startTime),
                     sttFormatTimestamp(chunk.endTime),
                     "could not be transcribed", message>>,
    startTime  |-> chunk.startTime,
    endTime    |-> chunk.endTime,
    duration   |-> chunk.duration,
    chunkIndex |-> chunk.index,
    error      |-> TRUE,
    errorMessage |-> message ]

\* the value returned after the loop: an object, not an array.
\* successRate is (successfulChunks / chunks.length) * 100, kept as the
\* exact fraction num/den.
BatchResult(transcriptions, successfulChunks, n) ==
  [ kind |-> "object",
    transcriptions |-> transcriptions,
    summary |-> [ totalChunks      |-> n,
                  successfulChunks |-> successfulChunks,
                  failedChunks     |-> n - successfulChunks,
                  successRate      |-> [num |-> successfulChunks * 100,
                                        den |-> n] ] ]

STTError == "STT transcription failed after 3 attempts"

\* the whole loop for the chunks array, failing exactly at the positions in
\* failedAt
RECURSIVE LoopEntries(_, _, _)
LoopEntries(chunks, failedAt, k) ==
  IF k = 0 THEN << >>
  ELSE Append(LoopEntries(chunks, failedAt, k - 1),
              IF k \in failedAt THEN FailedEntry(chunks[k], STTError)
              ELSE SuccessEntry(chunks[k]))

\* transcribeAudioChunks when it returns the transcriptions array itself
transcribeAudioChunks_array(chunks, failedAt) ==
  [ kind |-> "array",
    items |-> LoopEntries(chunks, failedAt, Len(chunks)) ]

transcribeAudioChunks(chunks, failedAt) ==
  BatchResult(LoopEntries(chunks, failedAt, Len(chunks)),
              Len(chunks) - Cardinality(failedAt \cap (1..Len(chunks))),
              Len(chunks))

\* ------------------------------------------------------------------------
\* Transcript assembler: RAGTranscriptionService.combineTranscriptions
\* (services/transcription.service.js).  The transcript is the sequence of
\* its lines, one per element, in the order of the array it is given.
\* ------------------------------------------------------------------------
JsArray(items) == [kind |-> "array", items |-> items]

\* only an Array has .map; on any other value the call raises a TypeError
HasMap(v) == v.kind = "array"

TranscriptLine(chunk) ==
  [timestamp |-> formatTimestamp(chunk.startTime), text |-> chunk.text]

combineTranscriptions(transcriptions) ==
  [k \in 1..Len(transcriptions.items) |->
      TranscriptLine(transcriptions.items[k])]

\* ------------------------------------------------------------------------
\* The pipeline: state
\* ------------------------------------------------------------------------
NoTranscript == << >>
GeneratedTranscript == <<"generated by fallbackToGemini">>

NoResult == [transcript |-> NoTranscript, summary |-> "", duration |-> 0,
             chunkCount |-> 0]
NoBatch == [kind |-> "undefined"]

\* the document created by new Video({...}).save()
NewVideo ==
  [ status |-> "queued", transcript |-> NoTranscript, summary |-> "",
    embeddings |-> "unset", duration |-> 0, error |-> << >> ]

NoVideo == [NewVideo EXCEPT !.status = "absent"]

\* JavaScript values of the fields of job.data; a string is the sequence
\* of its parts
Undefined == [type |-> "undefined"]
EmptyObject == [type |-> "object"]
Str(parts) == [type |-> "string", value |-> parts]

\* the job data uploadVideo puts on the queue
UploadedJobData ==
  [ videoId |-> Str(<<"videoId">>),
    cloudinaryUrl |-> Str(<<"https://", "res.cloudinary.com/video.mp4">>),
    language |-> Str(<<"english">>) ]

NoJob == [ state |-> "none", attemptsMade |-> 0, stalledCounter |-> 0,
           owner |-> NoWorker, lockAge |-> 0, data |-> UploadedJobData ]

\* the locals of one execution of processVideo and of the services it calls
IdleWorker ==
  [ pc |-> "idle",
    hb |-> TRUE,             \* the worker renews its job lock (is not stalled)
    loaded |-> FALSE,        \* processVideo: video !== null
    session |-> FALSE,       \* processVideo: transactionSession !== null
    openSessions |-> 0,      \* sessions started here and not ended
    result |-> NoResult,     \* transcriptionResult
    embeddings |-> "null",
    err |-> << >>,           \* message of the error being handled
    progress |-> 0,          \* progress last passed to job.updateProgress
    outcome |-> "none" ]     \* how processVideo ended: returned / threw

Mp4 == <<"mp4", "videoId">>
AudioFile == <<"audio">>
ChunkFile(i) == <<"chunk", i>>

\* the duration ffprobe reports for the extracted audio track
SourceDuration == 65

\* files of the chunks 0..n-1
ChunkFiles(n) == {ChunkFile(i) : i \in 0..(n - 1)}

\* no service function is being applied on its own
NoCall == [fn |-> "none"]

\* Environments.  In "any" every remote call can succeed or fail each time
\* it is made; the others fix the outcome of some of the calls for the whole
\* behaviour.
Envs ==
  {"any", "all succeed", "media fails", "embeddings fail",
   "notifications fail", "backend silent"}

\* every remote call but job.updateProgress succeeds; in "notifications
\* fail" each call of job.updateProgress can raise
OthersSucceed ==
  env \in {"all succeed", "notifications fail", "backend silent"}

\* outcomes of a MongoDB operation and of job.updateProgress (Redis)
DbOutcomes == IF OthersSucceed THEN {TRUE} ELSE BOOLEAN
NotifyOutcomes ==
  IF env \in {"all succeed", "backend silent"} THEN {TRUE} ELSE BOOLEAN

\* outcomes of the part of transcribeVideo that ends with downloadVideo:
\*   "ok"       the file was written
\*   "notify"   updateProgress(10) raised, nothing was downloaded
\*   "failed"   the download failed before the file was created
\*   "partial"  the download failed after the write stream created the file
DownloadOutcomes ==
  IF env \in {"all succeed", "backend silent"} THEN {"ok"}
  ELSE IF env = "notifications fail" THEN {"ok", "notify"}
  ELSE IF env = "media fails" THEN {"failed", "partial"}
  ELSE {"ok", "notify", "failed", "partial"}

\* outcomes of fallbackToGemini's call of the Gemini API,
\* model.generateContent(prompt), which is given no timeout:
\*   "answer"  it resolved
\*   "error"   it rejected
\*   "silent"  the backend never answers and the promise stays pending; in
\*             "backend silent" that is what every call does
GeminiOutcomes ==
  IF env = "backend silent" THEN {"silent"}
  ELSE IF OthersSucceed THEN {"answer"}
  ELSE {"answer", "error", "silent"}

\* outcomes of the race between generateEmbeddings and the 60 s timer:
\*   "values"   an embedding vector
\*   "null"     generateEmbeddings returned null: Gemini is not configured
\*   "error"    the backend raised; the catch of generateEmbeddings
\*              returned null
\*   "timeout"  the timer rejected first
EmbeddingOutcomes ==
  IF OthersSucceed THEN {"values"}
  ELSE IF env = "embeddings fail" THEN {"null", "error", "timeout"}
  ELSE {"values", "null", "error", "timeout"}

TypeOK ==
  /\ video.status \in {"absent", "queued", "processing", "completed", "failed"}
  /\ procAge \in 0..MaxAge
  /\ job.state \in {"none", "waiting", "active", "completed", "failed"}
  /\ job.owner \in Workers \cup {NoWorker}
  /\ \A w \in Workers : wk[w].pc \in
        {"idle", "start", "step1", "download", "stt", "fallback", "awaiting",
         "step2", "embed", "persist", "report", "catch", "finish"}
  /\ \A w \in Workers : wk[w].progress \in 0..100
  /\ \A w \in Workers : wk[w].openSessions \in 0..3
  /\ env \in Envs

\* nothing uploaded yet, both workers idle
PipelineIdle ==
  /\ video = NoVideo
  /\ procAge = 0
  /\ job = NoJob
  /\ wk = [w \in Workers |-> IdleWorker]
  /\ disk = {}

Init ==
  /\ PipelineIdle
  /\ env \in Envs
  /\ call = NoCall

\* ------------------------------------------------------------------------
\* Upload handler and queue
\* ------------------------------------------------------------------------
\* whether processVideoQueue.add resolves (Redis answers) or rejects
QueueOutcomes == IF env = "any" THEN BOOLEAN ELSE {TRUE}

\* uploadVideo: save the record (status defaults to queued, line 139), then
\* add the job with jobId = video id and attempts = 3 (142-150).  When add
\* rejects, the catch at 174-187 removes the temporary file and answers 500.
uploadVideo ==
  /\ video.status = "absent"
  /\ video' = NewVideo
  /\ procAge' = 0
  /\ \E added \in QueueOutcomes :
       job' = IF added
              THEN [NoJob EXCEPT !.state = "waiting", !.data = UploadedJobData]
              ELSE job
  /\ UNCHANGED <<wk, disk, env, call>>

\* Worker: an idle worker fetches the waiting job and takes its lock.
Take(w) ==
  /\ wk[w].pc = "idle"
  /\ wk[w].hb
  /\ job.state = "waiting"
  /\ job' = [job EXCEPT !.state = "active", !.owner = w, !.lockAge = 0]
  /\ wk' = [wk EXCEPT ![w] = [IdleWorker EXCEPT !.pc = "start"]]
  /\ UNCHANGED <<video, procAge, disk, env, call>>

HoldsLock(w) ==
  /\ job.state = "active"
  /\ job.owner = w
  /\ job.lockAge < LockTicks

\* Worker: the lock of a job in progress is renewed before it expires.
RenewLock(w) ==
  /\ wk[w].pc # "idle"
  /\ wk[w].hb
  /\ HoldsLock(w)
  /\ job.lockAge > 0
  /\ job' = [job EXCEPT !.lockAge = 0]
  /\ UNCHANGED <<video, procAge, wk, disk, env, call>>

\* Time passes.  A worker that is renewing its lock does so in time.
Tick ==
  /\ ~ \E w \in Workers : /\ wk[w].pc # "idle"
                          /\ wk[w].hb
                          /\ HoldsLock(w)
                          /\ job.lockAge + 1 >= LockTicks
  /\ procAge' = IF video.status = "processing"
                THEN Min(MaxAge, procAge + 1) ELSE procAge
  /\ job' = IF job.state = "active"
            THEN [job EXCEPT !.lockAge = Min(MaxAge, job.lockAge + 1)]
            ELSE job
  /\ \/ procAge' # procAge
     \/ job' # job
  /\ UNCHANGED <<video, wk, disk, env, call>>

\* Worker stalled-jobs check (stalledInterval): an active job whose lock has
\* expired goes back to wait, or fails once it has stalled more than
\* maxStalledCount times.
StallCheck(w) ==
  /\ wk[w].hb
  /\ job.state = "active"
  /\ job.lockAge >= LockTicks
  /\ job' = IF job.stalledCounter + 1 > maxStalledCount
            THEN [job EXCEPT !.state = "failed", !.owner = NoWorker,
                             !.stalledCounter = @ + 1]
            ELSE [job EXCEPT !.state = "waiting", !.owner = NoWorker,
                             !.stalledCounter = @ + 1]
  /\ UNCHANGED <<video, procAge, wk, disk, env, call>>

\* The worker process dies in the middle of a job and is started again: the
\* execution is gone, the job stays active until its lock expires.
Crash(w) ==
  /\ wk[w].pc # "idle"
  /\ wk[w].hb
  /\ wk' = [wk EXCEPT ![w] = IdleWorker]
  /\ UNCHANGED <<video, procAge, job, disk, env, call>>

\* The worker stops renewing its lock without dying (blocked event loop,
\* lost Redis connection) ...
Stall(w) ==
  /\ wk[w].pc # "idle"
  /\ wk[w].hb
  /\ HoldsLock(w)
  /\ wk' = [wk EXCEPT ![w].hb = FALSE]
  /\ UNCHANGED <<video, procAge, job, disk, env, call>>

\* ... and carries on where it was once the lock is lost.
Resume(w) ==
  /\ ~ wk[w].hb
  /\ ~ HoldsLock(w)
  /\ wk' = [wk EXCEPT ![w].hb = TRUE]
  /\ UNCHANGED <<video, procAge, job, disk, env, call>>

\* ------------------------------------------------------------------------
\* processVideo (workers/video.processor.js) and the services it awaits.
\* Each action is the code between two suspension points of one execution.
\* ------------------------------------------------------------------------
Running(w) == wk[w].hb

\* error.message of the error processVideo is handling: the one of the
\* status guard, or the one a remote call (MongoDB, Redis, Gemini) raised
DuplicateError == <<"Video ", "videoId", " is already being processed">>
RemoteError == <<"message of the remote call's error">>
NotFoundError == <<"Video not found: ", "videoId">>

\* !v and typeof v === 'string' of JavaScript
Truthy(v) == v.type = "object" \/ (v.type = "string" /\ v.value # << >>)
IsString(v) == v.type = "string"

\* v.startsWith(prefix) for a string v
startsWith(v, prefix) == v.value # << >> /\ v.value[1] = prefix

\* mongoose.Types.ObjectId.isValid(v): the id of the record is a valid one,
\* the other values of the model are not
ObjectIdIsValid(v) == v = Str(<<"videoId">>)

\* the errors array of validateJobData, lines 10-31
ValidationErrors(jobData) ==
  (IF ~ Truthy(jobData.videoId) \/ ~ IsString(jobData.videoId)
   THEN <<"Invalid or missing videoId">> ELSE << >>)
  \o (IF ~ Truthy(jobData.cloudinaryUrl) \/ ~ IsString(jobData.cloudinaryUrl)
      THEN <<"Invalid or missing cloudinaryUrl">> ELSE << >>)
  \o (IF ~ startsWith(jobData.cloudinaryUrl, "https://")
      THEN <<"Invalid cloudinaryUrl format">> ELSE << >>)
  \o (IF Truthy(jobData.language) /\ ~ IsString(jobData.language)
      THEN <<"Invalid language format">> ELSE << >>)
  \o (IF Truthy(jobData.videoId) /\ ~ ObjectIdIsValid(jobData.videoId)
      THEN <<"Invalid videoId format">> ELSE << >>)

\* validateJobData: the error it throws, << >> when it returns.  Line 20
\* calls cloudinaryUrl.startsWith whatever the value is, which is a
\* TypeError for anything but a string.
validateJobData(jobData) ==
  IF ~ IsString(jobData.cloudinaryUrl)
  THEN <<"TypeError: jobData.cloudinaryUrl.startsWith">>
  ELSE IF ValidationErrors(jobData) # << >>
  THEN <<"Job validation failed: ">> \o ValidationErrors(jobData)
  ELSE << >>

Throw(w, message, sessionOpen, videoLoaded) ==
  [wk[w] EXCEPT !.pc = "catch", !.err = message,
                !.session = sessionOpen, !.loaded = videoLoaded,
                !.openSessions = IF sessionOpen THEN 1 ELSE 0]

\* the staleness test when it also rejects at exactly 30 minutes
StartedRecently_inclusive == procAge <= StaleTicks

\* the staleness test of the status guard: new Date() - video.updatedAt
\* < 30 * 60 * 1000
StartedRecently == procAge < StaleTicks

\* processVideoStart without the branch for a record that is completed
processVideoStart_replay(w) ==
  /\ wk[w].pc = "start"
  /\ Running(w)
  /\ \E dbOk \in DbOutcomes, notifyOk \in NotifyOutcomes :
       IF validateJobData(job.data) # << >>
       THEN /\ wk' = [wk EXCEPT ![w] =
                        Throw(w, validateJobData(job.data), FALSE, FALSE)]
            /\ UNCHANGED <<video, procAge>>
       ELSE IF ~ dbOk
       THEN /\ wk' = [wk EXCEPT ![w] = Throw(w, RemoteError, TRUE, FALSE)]
            /\ UNCHANGED <<video, procAge>>
       ELSE IF video.status = "absent"
       THEN /\ wk' = [wk EXCEPT ![w] = Throw(w, NotFoundError, TRUE, FALSE)]
            /\ UNCHANGED <<video, procAge>>
       ELSE IF video.status = "processing" /\ StartedRecently
       THEN /\ wk' = [wk EXCEPT ![w] =
                        Throw(w, DuplicateError, TRUE, TRUE)]
            /\ UNCHANGED <<video, procAge>>
       ELSE IF ~ notifyOk
       THEN /\ wk' = [wk EXCEPT ![w] = Throw(w, RemoteError, TRUE, TRUE)]
            /\ UNCHANGED <<video, procAge>>
       ELSE /\ video' = [video EXCEPT !.status = "processing"]
            /\ procAge' = 0
            /\ wk' = [wk EXCEPT ![w].pc = "step1", ![w].loaded = TRUE,
                                ![w].progress = 5]
  /\ UNCHANGED <<job, disk, env, call>>

\* lines 84-137: validate, open the transaction, read the record, status
\* guard, set processing, report progress 5, commit.
processVideoStart(w) ==
  /\ wk[w].pc = "start"
  /\ Running(w)
  /\ \E dbOk \in DbOutcomes, notifyOk \in NotifyOutcomes :
       IF validateJobData(job.data) # << >>
       THEN /\ wk' = [wk EXCEPT ![w] =
                        Throw(w, validateJobData(job.data), FALSE, FALSE)]
            /\ UNCHANGED <<video, procAge>>
       ELSE IF ~ dbOk
       THEN /\ wk' = [wk EXCEPT ![w] = Throw(w, RemoteError, TRUE, FALSE)]
            /\ UNCHANGED <<video, procAge>>
       ELSE IF video.status = "absent"
       THEN /\ wk' = [wk EXCEPT ![w] = Throw(w, NotFoundError, TRUE, FALSE)]
            /\ UNCHANGED <<video, procAge>>
       ELSE IF video.status = "completed"
       THEN /\ wk' = [wk EXCEPT ![w].pc = "finish",
                                ![w].outcome = "already_completed"]
            /\ UNCHANGED <<video, procAge>>
       ELSE IF video.status = "processing" /\ StartedRecently
       THEN /\ wk' = [wk EXCEPT ![w] =
                        Throw(w, DuplicateError, TRUE, TRUE)]
            /\ UNCHANGED <<video, procAge>>
       ELSE IF ~ notifyOk
       THEN \* updateProgress raised inside the transaction: the save is
            \* rolled back by abortTransaction
            /\ wk' = [wk EXCEPT ![w] = Throw(w, RemoteError, TRUE, TRUE)]
            /\ UNCHANGED <<video, procAge>>
       ELSE /\ video' = [video EXCEPT !.status = "processing"]
            /\ procAge' = 0
            /\ wk' = [wk EXCEPT ![w].pc = "step1", ![w].loaded = TRUE,
                                ![w].progress = 5]
  /\ UNCHANGED <<job, disk, env, call>>

\* lines 139-140, "Step 1": progress 30, outside any try of its own.
startTranscription(w) ==
  /\ wk[w].pc = "step1"
  /\ Running(w)
  /\ \E notifyOk \in NotifyOutcomes :
       wk' = IF notifyOk
             THEN [wk EXCEPT ![w].pc = "download", ![w].progress = 30]
             ELSE [wk EXCEPT ![w] = Throw(w, RemoteError, FALSE, TRUE)]
  /\ UNCHANGED <<video, procAge, job, disk, env, call>>

\* transcribeVideo lines 176-191: progress 10, download to
\* TEMP_DIR/<videoId>.mp4.  An error inside transcribeVideo ("notify": the
\* one of updateProgress) is caught there and leads to fallbackToGemini.
downloadVideo(w) ==
  /\ wk[w].pc = "download"
  /\ Running(w)
  /\ \E inner \in DownloadOutcomes :
       IF inner = "notify"
       THEN /\ disk' = disk
            /\ wk' = [wk EXCEPT ![w].pc = "fallback"]
       ELSE IF inner = "ok"
       THEN /\ disk' = disk \cup {Mp4}
            /\ wk' = [wk EXCEPT ![w].pc = "stt", ![w].progress = 10]
       ELSE IF inner = "partial"
       THEN /\ disk' = disk \cup {Mp4}
            /\ wk' = [wk EXCEPT ![w].pc = "fallback", ![w].progress = 10]
       ELSE /\ disk' = disk
            /\ wk' = [wk EXCEPT ![w].pc = "fallback", ![w].progress = 10]
  /\ UNCHANGED <<video, procAge, job, env, call>>

\* What one run of transcribeWithSTT (called at transcribeVideo line 197)
\* does to the disk and how it ends, for each way its steps can go:
\*   "no video"      existsSync(videoPath) is false (line 70)
\*   <<"extract", p>> ffmpeg fails in extractAudio, p: it left a partial file;
\*                   audioPath is still null, cleanupFiles([null]) removes
\*                   nothing
\*   <<"split", k, p>> ffmpeg fails for chunk k after chunks 0..k-1 were
\*                   written; they are in the local array of
\*                   splitAudioIntoChunks, so the catch of
\*                   processVideoForChunking cleans up [audioPath] only
\*   <<"stt", F>>    segmentation succeeded and the chunks at the positions
\*                   in F failed transcription; the finally block cleans up
\*                   the audio track and all chunks
NChunks == totalChunks(SourceDuration, chunkDurationDefault)

SttRuns ==
  {<<"no video">>}
    \cup {<<"extract", p>> : p \in BOOLEAN}
    \cup {<<"split", k, p>> : k \in 0..(NChunks - 1), p \in BOOLEAN}
    \cup {<<"stt", F>> : F \in SUBSET (1..NChunks)}

\* the chunks array processVideoForChunking returns
SourceChunks == ChunksUpTo(NChunks, SourceDuration, chunkDurationDefault)

\* files the run writes (each under a fresh uuid name) ...
SttCreated(run) ==
  IF run[1] = "extract"
  THEN IF run[2] THEN {AudioFile} ELSE {}
  ELSE IF run[1] = "split"
  THEN {AudioFile} \cup ChunkFiles(run[2])
         \cup (IF run[3] THEN {ChunkFile(run[2])} ELSE {})
  ELSE IF run[1] = "stt"
  THEN {AudioFile} \cup ChunkFiles(NChunks)
  ELSE {}

\* ... and the files it hands to cleanupFiles before it ends
SttCleaned(run) ==
  IF run[1] = "split" THEN {AudioFile}
  ELSE IF run[1] = "stt" THEN {AudioFile} \cup ChunkFiles(NChunks)
  ELSE {}

\* files the run leaves behind
SttLeft(run) == SttCreated(run) \ SttCleaned(run)

\* The audio track and the chunks get fresh uuid names in every run, so a
\* file a run left behind is never referred to again: disk keeps such
\* files by role.
Leftover == <<"audio track or chunk file">>

Roles(files) == {Leftover : f \in files}

\* const transcriptions = await STTService.transcribeAudioChunks(...)
SttBatch(run) ==
  IF run[1] = "stt" THEN transcribeAudioChunks(SourceChunks, run[2])
  ELSE NoBatch

\* TRUE when transcribeWithSTT returns instead of throwing: the chunking and
\* the fan-out went through and combineTranscriptions could map over its
\* argument
SttReturns(run) == run[1] = "stt" /\ HasMap(SttBatch(run))

SttResult(run, summary) ==
  [ transcript |-> combineTranscriptions(SttBatch(run)),
    summary |-> summary,
    duration |-> SourceDuration,
    chunkCount |-> Len(SttBatch(run).items) ]

\* outcomes of the calls around transcribeWithSTT in transcribeVideo:
\*   "rag"     generateSummaryWithRAG produced the summary
\*   "stub"    it raised and generateFallbackSummary produced it
\*   "notify"  one of the updateProgress calls raised
SummaryOutcomes ==
  IF env \in {"all succeed", "backend silent"} THEN {"rag"}
  ELSE IF env = "notifications fail" THEN {"rag", "notify"}
  ELSE {"rag", "stub", "notify"}

SttOutcomes == IF OthersSucceed THEN {<<"stt", {}>>} ELSE SttRuns

\* the progress last reported when transcribeVideo lines 193-208 end in
\* an error: 60 when transcribeWithSTT threw; when an updateProgress raised
\* ("notify"), the one before it
SttProgress(run, s, before) ==
  IF s = "notify"
  THEN {before, 30} \cup (IF SttReturns(run) THEN {60, 80} ELSE {})
  ELSE {60}

\* transcribeVideo lines 193-219: progress 30 and 60, transcribeWithSTT,
\* progress 80, generateSummaryWithRAG (which falls back to a local stub),
\* progress 100, return; the finally block unlinks the downloaded file on
\* return.  Any error goes to the catch of transcribeVideo.
transcribeWithSTT(w) ==
  /\ wk[w].pc = "stt"
  /\ Running(w)
  /\ \E run \in SttOutcomes \cup {<<"no video">>}, s \in SummaryOutcomes :
       /\ (run[1] = "no video") <=> (Mp4 \notin disk)
       /\ IF SttReturns(run) /\ s # "notify"
          THEN /\ wk' = [wk EXCEPT ![w].pc = "step2",
                                   ![w].result = SttResult(run, s),
                                   ![w].progress = 100]
               /\ disk' = (disk \cup Roles(SttLeft(run))) \ {Mp4}
          ELSE /\ \E p \in SttProgress(run, s, wk[w].progress) :
                    wk' = [wk EXCEPT ![w].pc = "fallback",
                                     ![w].progress = p]
               /\ disk' = disk \cup Roles(SttLeft(run))
  /\ UNCHANGED <<video, procAge, job, env, call>>

\* transcribeVideo lines 221-236: the catch calls fallbackToGemini, the
\* finally unlinks TEMP_DIR/<videoId>.mp4 when it exists.  While
\* generateContent is pending the execution stays in its await
\* ("awaiting") and the finally has not run.
fallbackToGemini(w) ==
  /\ wk[w].pc = "fallback"
  /\ Running(w)
  /\ \E gemini \in GeminiOutcomes :
       /\ wk' = IF gemini = "answer"
                THEN [wk EXCEPT ![w].pc = "step2",
                        ![w].result =
                           [ transcript |-> GeneratedTranscript,
                             summary |-> "Summary generated using fallback service",
                             duration |-> FallbackDuration,
                             chunkCount |-> 1 ]]
                ELSE IF gemini = "error"
                THEN [wk EXCEPT ![w] = Throw(w, RemoteError, FALSE, TRUE)]
                ELSE [wk EXCEPT ![w].pc = "awaiting"]
       /\ disk' = IF gemini = "silent" THEN disk ELSE disk \ {Mp4}
  /\ UNCHANGED <<video, procAge, job, env, call>>

\* lines 148-153, "Step 2" and "Step 3": progress 70, progress 90; n is
\* the number of the two calls that went through.
reportSummary(w) ==
  /\ wk[w].pc = "step2"
  /\ Running(w)
  /\ \E n \in {k \in 0..2 : k = 2 \/ FALSE \in NotifyOutcomes} :
       wk' = IF n = 2
             THEN [wk EXCEPT ![w].pc = "embed", ![w].progress = 90]
             ELSE IF n = 1
             THEN [wk EXCEPT ![w] = [Throw(w, RemoteError, FALSE, TRUE)
                                       EXCEPT !.progress = 70]]
             ELSE [wk EXCEPT ![w] = Throw(w, RemoteError, FALSE, TRUE)]
  /\ UNCHANGED <<video, procAge, job, disk, env, call>>

\* generateEmbeddings when the rejection of the race is not caught
generateEmbeddings_uncaught(w) ==
  /\ wk[w].pc = "embed"
  /\ Running(w)
  /\ \E e \in EmbeddingOutcomes :
       wk' = IF e = "timeout"
             THEN [wk EXCEPT ![w] = Throw(w, RemoteError, FALSE, TRUE)]
             ELSE [wk EXCEPT ![w].pc = "persist",
                             ![w].embeddings = IF e = "values" THEN "values"
                                               ELSE "null"]
  /\ UNCHANGED <<video, procAge, job, disk, env, call>>

\* lines 155-166: let embeddings = null; generateEmbeddings raced with a
\* 60 s timer inside try/catch.  The catch only logs.
generateEmbeddings(w) ==
  /\ wk[w].pc = "embed"
  /\ Running(w)
  /\ \E e \in EmbeddingOutcomes :
       wk' = [wk EXCEPT ![w].pc = "persist",
                       ![w].embeddings = IF e = "values" THEN "values"
                                         ELSE "null"]
  /\ UNCHANGED <<video, procAge, job, disk, env, call>>

\* lines 168-196: findByIdAndUpdate({status: 'completed', ...}) in a
\* transaction, commit.
persistCompleted(w) ==
  /\ wk[w].pc = "persist"
  /\ Running(w)
  /\ \E dbOk \in DbOutcomes :
       IF dbOk
       THEN /\ video' = [ status |-> "completed",
                          transcript |-> wk[w].result.transcript,
                          summary |-> wk[w].result.summary,
                          embeddings |-> wk[w].embeddings,
                          duration |-> wk[w].result.duration,
                          error |-> video.error ]
            /\ procAge' = 0
            /\ wk' = [wk EXCEPT ![w].pc = "report"]
       ELSE /\ wk' = [wk EXCEPT ![w] = Throw(w, RemoteError, TRUE, TRUE)]
            /\ UNCHANGED <<video, procAge>>
  /\ UNCHANGED <<job, disk, env, call>>

\* lines 198-209: progress 100, return.
reportCompleted(w) ==
  /\ wk[w].pc = "report"
  /\ Running(w)
  /\ \E notifyOk \in NotifyOutcomes :
       wk' = IF notifyOk
             THEN [wk EXCEPT ![w].pc = "finish", ![w].outcome = "returned",
                             ![w].progress = 100]
             ELSE [wk EXCEPT ![w] = Throw(w, RemoteError, FALSE, TRUE)]
  /\ UNCHANGED <<video, procAge, job, disk, env, call>>

\* atomicVideoUpdate(videoId, update): findByIdAndUpdate in a transaction,
\* retried up to 3 times; TRUE when one of the tries went through.
atomicVideoUpdate(update, dbOk) ==
  IF dbOk THEN [video EXCEPT !.status = update.status, !.error = update.error]
  ELSE video

\* atomicVideoUpdate, line 45: maxRetries = 3
updateMaxRetries == 3

\* atomicVideoUpdate, lines 48-76: every attempt starts a session of its own
\* (50-51) and ends it after the commit only (63-64); the catch at 66-75
\* counts the attempt and neither aborts nor ends the session.  The number
\* of sessions a call leaves open: none when the update goes through, one
\* per attempt when the database rejects it.
sessionsLeftOpen(dbOk) == IF dbOk THEN 0 ELSE updateMaxRetries

\* lines 211-238: abort the open transaction and end its session (215-222,
\* or the finally at 241-247), mark the record failed when video was
\* loaded, re-throw.
catchError(w) ==
  /\ wk[w].pc = "catch"
  /\ Running(w)
  /\ \E dbOk \in DbOutcomes :
       /\ IF wk[w].loaded
          THEN /\ video' = atomicVideoUpdate(
                              [status |-> "failed", error |-> wk[w].err],
                              dbOk)
               /\ procAge' = IF dbOk THEN 0 ELSE procAge
          ELSE UNCHANGED <<video, procAge>>
       /\ wk' = [wk EXCEPT ![w].pc = "finish", ![w].outcome = "threw",
                           ![w].session = FALSE,
                           ![w].openSessions =
                              IF wk[w].loaded THEN sessionsLeftOpen(dbOk)
                              ELSE 0]
  /\ UNCHANGED <<job, disk, env, call>>

\* Worker: processVideo settled.  With the lock, a returned job moves to
\* completed and a thrown one is retried (attemptsMade + 1 < attempts) or
\* moves to failed; without the lock the job is left as it is.
finishJob(w) ==
  /\ wk[w].pc = "finish"
  /\ Running(w)
  /\ job' = IF ~ HoldsLock(w) THEN job
            ELSE IF wk[w].outcome # "threw"
            THEN [job EXCEPT !.state = "completed", !.owner = NoWorker]
            ELSE IF job.attemptsMade + 1 < attempts
            THEN [job EXCEPT !.state = "waiting", !.owner = NoWorker,
                             !.attemptsMade = @ + 1]
            ELSE [job EXCEPT !.state = "failed", !.owner = NoWorker,
                             !.attemptsMade = @ + 1]
  /\ wk' = [wk EXCEPT ![w] = IdleWorker]
  /\ UNCHANGED <<video, procAge, disk, env, call>>

Next ==
  \/ uploadVideo
  \/ Tick
  \/ \E w \in Workers :
       \/ Take(w)
       \/ RenewLock(w)
       \/ StallCheck(w)
       \/ Crash(w)
       \/ processVideoStart(w)
       \/ startTranscription(w)
       \/ downloadVideo(w)
       \/ transcribeWithSTT(w)
       \/ fallbackToGemini(w)
       \/ reportSummary(w)
       \/ generateEmbeddings(w)
       \/ persistCompleted(w)
       \/ reportCompleted(w)
       \/ catchError(w)
       \/ finishJob(w)

Spec == Init /\ [][Next]_vars

\* The system with its scheduling: time passes, the queue hands out waiting
\* jobs and checks for stalled ones, a worker renews its locks, and an
\* execution of processVideo that can take its next step takes it.  A
\* worker is not bound to crash.  The remote calls all succeed, or the
\* Gemini backend never answers.
InitLive == Init /\ env \in {"all succeed", "backend silent"}

Fairness ==
  /\ WF_vars(Tick)
  /\ \A w \in Workers :
       /\ WF_vars(Take(w))
       /\ WF_vars(RenewLock(w))
       /\ WF_vars(StallCheck(w))
       /\ WF_vars(processVideoStart(w))
       /\ WF_vars(startTranscription(w))
       /\ WF_vars(downloadVideo(w))
       /\ WF_vars(transcribeWithSTT(w))
       /\ WF_vars(fallbackToGemini(w))
       /\ WF_vars(reportSummary(w))
       /\ WF_vars(generateEmbeddings(w))
       /\ WF_vars(persistCompleted(w))
       /\ WF_vars(reportCompleted(w))
       /\ WF_vars(catchError(w))
       /\ WF_vars(finishJob(w))

SpecLive == InitLive /\ [][Next]_vars /\ Fairness

\* The workers when the job waiting on the queue carries data that
\* validateJobData rejects, whether the record it names exists or not.
JobDataValues ==
  [ videoId : {Undefined, EmptyObject, Str(<<"not an ObjectId">>),
               Str(<<"videoId">>)},
    cloudinaryUrl : {Undefined, EmptyObject,
                     Str(<<"http://", "res.cloudinary.com/video.mp4">>),
                     Str(<<"https://", "res.cloudinary.com/video.mp4">>)},
    language : {Undefined, EmptyObject, Str(<<"english">>)} ]

InitInvalidJob ==
  /\ video \in {NoVideo, NewVideo}
  /\ procAge = 0
  /\ \E d \in JobDataValues :
       /\ validateJobData(d) # << >>
       /\ job = [NoJob EXCEPT !.state = "waiting", !.data = d]
  /\ wk = [w \in Workers |-> IdleWorker]
  /\ disk = {}
  /\ env = "any"
  /\ call = NoCall

NextInvalidJob ==
  \/ Tick
  \/ \E w \in Workers :
       \/ Take(w)
       \/ RenewLock(w)
       \/ StallCheck(w)
       \/ Crash(w)
       \/ processVideoStart(w)
       \/ catchError(w)
       \/ finishJob(w)

SpecInvalidJob == InitInvalidJob /\ [][NextInvalidJob]_vars

\* The same system when a worker can also stall without dying, in an
\* environment where every remote call succeeds.
NextStall ==
  \/ Next
  \/ \E w \in Workers : Stall(w)
  \/ \E w \in Workers : Resume(w)

InitStall == Init /\ env = "all succeed"

SpecStall == InitStall /\ [][NextStall]_vars

\* ------------------------------------------------------------------------
\* splitAudioIntoChunks applied on its own, one loop iteration per step
\* ------------------------------------------------------------------------
\* largest duration of the audio track, in seconds
MaxDuration == 8
\* largest magnitude of the configured chunk duration, in seconds
MaxChunkDuration == 4

\* this.chunkDuration = Number(process.env.AUTO_CHUNK_DURATION) || 30:
\* any number but 0 and NaN, which both give 30
ChunkDurations ==
  ((- MaxChunkDuration)..MaxChunkDuration \ {0}) \cup {chunkDurationDefault}

\* state at the head of the for loop, before iteration i = 0
SplitCall(duration, chunkDuration) ==
  [ fn |-> "splitAudioIntoChunks",
    duration |-> duration,
    chunkDuration |-> chunkDuration,
    totalChunks |-> totalChunks(duration, chunkDuration),
    i |-> 0,
    chunks |-> << >>,
    status |-> "running" ]

InitSplit ==
  /\ PipelineIdle
  /\ env = "any"
  /\ \E duration \in 1..MaxDuration, chunkDuration \in ChunkDurations :
       call = SplitCall(duration, chunkDuration)

\* iteration i: ffmpeg wrote the chunk file, 'end' pushes the chunk
splitChunk ==
  /\ call.status = "running"
  /\ call.i < call.totalChunks
  /\ call' = [call EXCEPT
                !.chunks = Append(@, ChunkAt(call.i, call.duration,
                                             call.chunkDuration)),
                !.i = @ + 1]
  /\ UNCHANGED pipelineVars

\* iteration i: ffmpeg emitted 'error', the promise rejects
splitError ==
  /\ call.status = "running"
  /\ call.i < call.totalChunks
  /\ call' = [call EXCEPT !.status = "rejected"]
  /\ UNCHANGED pipelineVars

\* i < totalChunks is false: return chunks
splitReturn ==
  /\ call.status = "running"
  /\ ~ (call.i < call.totalChunks)
  /\ call' = [call EXCEPT !.status = "returned"]
  /\ UNCHANGED pipelineVars

NextSplit ==
  \/ splitChunk
  \/ splitError
  \/ splitReturn

SpecSplit == InitSplit /\ [][NextSplit]_vars

\* the ranges [startTime, endTime) of the chunks, in index order, are
\* contiguous, non-overlapping and cover [0, total) exactly
CoversExactly(chunks, total, chunkDuration) ==
  /\ Len(chunks) > 0
  /\ chunks[1].startTime = 0
  /\ chunks[Len(chunks)].endTime = total
  /\ \A k \in 1..Len(chunks) :
       /\ chunks[k].index = k - 1
       /\ chunks[k].startTime < chunks[k].endTime
       /\ chunks[k].endTime =
            Min(chunks[k].index * chunkDuration + chunkDuration, total)
       /\ k < Len(chunks) => chunks[k + 1].startTime = chunks[k].endTime

\* C6: for every totalDuration > 0 and every chunk duration the service can
\* be configured with, the chunks splitAudioIntoChunks returns are
\* contiguous, non-overlapping and cover [0, totalDuration) exactly, with
\* endTime = min(index*chunkDuration + chunkDuration, totalDuration).
C6_ChunksCoverDuration ==
  (call.fn = "splitAudioIntoChunks" /\ call.status = "returned")
    => CoversExactly(call.chunks, call.duration, call.chunkDuration)

\* ------------------------------------------------------------------------
\* Properties of the pipeline
\* ------------------------------------------------------------------------
\* the execution of w has passed the status guard, has set the record to
\* processing, and is running the steps that lead to the completed record
Processing(w) ==
  /\ wk[w].pc \in {"step1", "download", "stt", "fallback", "awaiting",
                   "step2", "embed", "persist"}
  /\ Running(w)

\* C1: at no time are two processing attempts of the video active together
\* (two executions of processVideo that both passed the status guard and
\* set the record to processing).
C1_OneAttemptAtATime ==
  Cardinality({w \in Workers : Processing(w)}) <= 1

\* C2: once status = completed has been persisted, no later step of any
\* attempt sets the status to processing or failed.
C2_CompletedIsFinal ==
  [][video.status = "completed" => video'.status = "completed"]_vars

\* C3: a job whose download and transcription fail on every attempt never
\* ends Completed (it is retried up to the attempt bound, then Failed).
C3_MediaFailureNeverCompletes ==
  env = "media fails" =>
    /\ video.status # "completed"
    /\ job.state # "completed"

\* the execution of w is the attempt that follows a stall recovery: the job
\* has stalled and no attempt of it has ended otherwise yet
RecoveryAttempt(w) ==
  /\ job.state = "active"
  /\ job.owner = w
  /\ job.stalledCounter > 0
  /\ job.attemptsMade = 0
  /\ wk[w].pc # "idle"

\* C4: the attempt that reprocesses a stalled job is not rejected by the
\* status guard because the record is still in processing.
C4_RecoveryPassesGuard ==
  \A w \in Workers : RecoveryAttempt(w) => wk[w].err # DuplicateError

\* the first attempt of the job is the only one there has been, and it has
\* ended: processVideo returned (job completed) or threw (job waiting for
\* its first retry)
FirstAttemptEnded ==
  /\ job.stalledCounter = 0
  /\ \/ job.state = "completed" /\ job.attemptsMade = 0
     \/ job.state = "waiting" /\ job.attemptsMade = 1

\* C5: after a processing attempt has ended, by success or by an error at
\* any step, none of the temporary files it created remains on disk.
\* Stated for the first attempt, before which the disk is empty.
C5_NoTempFilesLeft ==
  FirstAttemptEnded => disk = {}

\* the transcript assembled from the chunk transcriptions of the source
AssembledTranscript ==
  combineTranscriptions(
    JsArray(transcribeAudioChunks(SourceChunks, {}).transcriptions))

\* C9: when every remote call succeeds, the record is completed with the
\* assembly of the chunk transcriptions as its transcript, one timestamped
\* line per chunk, a summary string and the probed duration.
C9_CompletedWithAssembledTranscript ==
  (env = "all succeed" /\ video.status = "completed") =>
    /\ video.transcript = AssembledTranscript
    /\ Len(video.transcript) = NChunks
    /\ video.summary # ""
    /\ video.duration = SourceDuration

\* C10: when embedding generation fails every time (the backend errors,
\* returns nothing or exceeds the 60 s timer), the step after the embedding
\* call is the persisting of the completed record, with embeddings = null;
\* the failure changes neither the record nor the job, and a record that
\* is completed has embeddings = null.
C10_EmbeddingFailureTolerated ==
  /\ [](env = "embeddings fail" /\ video.status = "completed"
          => video.embeddings = "null")
  /\ [][\A w \in Workers :
          (/\ env = "embeddings fail"
           /\ wk[w].pc = "embed"
           /\ wk'[w].pc \notin {"embed", "idle"})
            => /\ wk'[w].pc = "persist"
               /\ wk'[w].embeddings = "null"
               /\ video' = video
               /\ job' = job]_vars

\* embedding generation failed and the attempt ended with the job and the
\* record completed, embeddings = null
C10_Witness ==
  /\ env = "embeddings fail"
  /\ job.state = "completed"
  /\ job.attemptsMade = 0
  /\ video.status = "completed"
  /\ video.embeddings = "null"

\* ------------------------------------------------------------------------
\* transcribeAudioChunks applied on its own, one loop iteration per step
\* ------------------------------------------------------------------------
\* largest number of chunks in the list handed to the service functions
MaxChunks == 5

\* the chunk lists of sources that split into 1..MaxChunks chunks of the
\* default length, the last chunk shorter than the others
ChunkLists ==
  { ChunksUpTo(n, n * chunkDurationDefault - 5, chunkDurationDefault) :
      n \in 1..MaxChunks }

\* state after the argument check, before the first iteration; failedAt
\* records the positions whose call of transcribeAudioChunk rejected
SttCall(chunks) ==
  [ fn |-> "transcribeAudioChunks",
    chunks |-> chunks,
    k |-> 0,
    transcriptions |-> << >>,
    successfulChunks |-> 0,
    failedAt |-> {},
    status |-> "running",
    result |-> NoBatch ]

InitStt ==
  /\ PipelineIdle
  /\ env = "any"
  /\ \E chunks \in ChunkLists : call = SttCall(chunks)

\* try branch: transcribeAudioChunk resolved
sttChunkOk ==
  /\ call.fn = "transcribeAudioChunks"
  /\ call.status = "running"
  /\ call.k < Len(call.chunks)
  /\ call' = [call EXCEPT
                !.k = @ + 1,
                !.transcriptions = Append(@, SuccessEntry(call.chunks[call.k + 1])),
                !.successfulChunks = @ + 1]
  /\ UNCHANGED pipelineVars

\* catch branch: transcribeAudioChunk rejected after its retries
sttChunkFailed ==
  /\ call.fn = "transcribeAudioChunks"
  /\ call.status = "running"
  /\ call.k < Len(call.chunks)
  /\ call' = [call EXCEPT
                !.k = @ + 1,
                !.transcriptions =
                   Append(@, FailedEntry(call.chunks[call.k + 1], STTError)),
                !.failedAt = @ \cup {call.k + 1}]
  /\ UNCHANGED pipelineVars

\* after the loop: return { transcriptions, summary }
sttReturn ==
  /\ call.fn = "transcribeAudioChunks"
  /\ call.status = "running"
  /\ call.k = Len(call.chunks)
  /\ call' = [call EXCEPT
                !.status = "returned",
                !.result = BatchResult(call.transcriptions,
                                       call.successfulChunks,
                                       Len(call.chunks))]
  /\ UNCHANGED pipelineVars

NextStt ==
  \/ sttChunkOk
  \/ sttChunkFailed
  \/ sttReturn

SpecStt == InitStt /\ [][NextStt]_vars

\* the placeholder text of a failed chunk: it names the time range of the
\* chunk and the error
Placeholder(chunk, message) ==
  <<"Audio segment", sttFormatTimestamp(chunk.startTime),
    sttFormatTimestamp(chunk.endTime), "could not be transcribed", message>>

\* C7: for a list of N chunks of which any subset fails transcription,
\* transcribeAudioChunks returns N entries, entry k carrying the index,
\* startTime and endTime of chunk k, the failed ones flagged error = true
\* with a placeholder text naming the time range and the error; the summary
\* has total = N, successful + failed = N and successRate =
\* 100 * successful / N (4 of 5 gives successful 4, failed 1, rate 80).
C7_BatchNeverAborts ==
  (call.fn = "transcribeAudioChunks" /\ call.status = "returned") =>
    LET N == Len(call.chunks)
        t == call.result.transcriptions
        sum == call.result.summary
        failed == Cardinality(call.failedAt)
    IN /\ Len(t) = N
       /\ \A k \in 1..N :
            /\ t[k].chunkIndex = call.chunks[k].index
            /\ t[k].startTime = call.chunks[k].startTime
            /\ t[k].endTime = call.chunks[k].endTime
            /\ t[k].error = (k \in call.failedAt)
            /\ k \in call.failedAt =>
                 t[k].text = Placeholder(call.chunks[k], t[k].errorMessage)
            /\ k \notin call.failedAt =>
                 t[k].text = <<"text", call.chunks[k].index>>
       /\ sum.totalChunks = N
       /\ sum.successfulChunks = N - failed
       /\ sum.failedChunks = failed
       /\ sum.successRate.num * N = 100 * (N - failed) * sum.successRate.den
       /\ (N = 5 /\ failed = 1) =>
            sum.successRate.num = 80 * sum.successRate.den

\* chunk 2 of 5 failed and the batch returned
C7_Witness ==
  /\ call.fn = "transcribeAudioChunks"
  /\ call.status = "returned"
  /\ Len(call.chunks) = 5
  /\ call.failedAt = {2}
  /\ Len(call.result.transcriptions) = 5
  /\ call.result.summary.successfulChunks = 4

\* ------------------------------------------------------------------------
\* combineTranscriptions applied on its own
\* ------------------------------------------------------------------------
\* the arrangements of the elements of the sequence q in any order
Orders(q) ==
  { [k \in 1..Len(q) |-> q[p[k]]] :
      p \in { f \in [1..Len(q) -> 1..Len(q)] :
                \A a, b \in 1..Len(q) : a # b => f[a] # f[b] } }

\* arguments: the transcriptions of a chunk list as an Array in any order,
\* and the value transcribeAudioChunks returns for the list
AssemblerInputs ==
  UNION { { JsArray(q) : q \in Orders(transcribeAudioChunks(c, {}).transcriptions) }
             \cup { transcribeAudioChunks(c, {}) } : c \in ChunkLists }

InitCombine ==
  /\ PipelineIdle
  /\ env = "any"
  /\ \E input \in AssemblerInputs :
       call = [ fn |-> "combineTranscriptions", input |-> input,
                status |-> "called", output |-> NoTranscript ]

\* transcriptions.map(...).join: the lines in the order of the array
combineReturn ==
  /\ call.fn = "combineTranscriptions"
  /\ call.status = "called"
  /\ HasMap(call.input)
  /\ call' = [call EXCEPT !.status = "returned",
                          !.output = combineTranscriptions(call.input)]
  /\ UNCHANGED pipelineVars

\* TypeError: transcriptions.map is not a function
combineThrow ==
  /\ call.fn = "combineTranscriptions"
  /\ call.status = "called"
  /\ ~ HasMap(call.input)
  /\ call' = [call EXCEPT !.status = "threw"]
  /\ UNCHANGED pipelineVars

NextCombine ==
  \/ combineReturn
  \/ combineThrow

SpecCombine == InitCombine /\ [][NextCombine]_vars

\* C8: for N chunk transcriptions handed to the assembler in any order, the
\* assembled transcript has the N segments in ascending chunk index order
\* (the text of the segment of chunk i is <<"text", i>>).
C8_AscendingIndexOrder ==
  (call.fn = "combineTranscriptions" /\ call.status = "returned") =>
    /\ Len(call.output) = Len(call.input.items)
    /\ \A a, b \in 1..Len(call.output) :
         a < b => call.output[a].text[2] < call.output[b].text[2]

\* ------------------------------------------------------------------------
\* Properties of the pipeline: notifications, failures, replay
\* ------------------------------------------------------------------------
\* C11: a failure to deliver a notification (job.updateProgress raising at
\* any point of the attempt) never fails the attempt, never triggers a
\* retry and never changes what is persisted: where nothing but
\* notifications fails, the record is never failed and no attempt of the
\* job is ever counted as failed.
C11_NotificationFailureHarmless ==
  env = "notifications fail" =>
    /\ video.status # "failed"
    /\ job.state # "failed"
    /\ job.attemptsMade = 0

\* C12: an error during download, segmentation, transcription or
\* summarization is never silently swallowed: the attempt never ends with
\* the record completed with content that does not come from the source.
C12_CompletedContentFromSource ==
  video.status = "completed" => video.transcript # GeneratedTranscript

C14_ProgressNonDecreasing ==
  [][\A w \in Workers :
       (wk[w].pc # "idle" /\ wk'[w].pc # "idle")
          => /\ wk'[w].progress >= wk[w].progress
             /\ wk'[w].progress \in 0..100]_vars

\* C15: job data that fails validation makes the attempt fail fast: the
\* queue does not retry the job, which is Failed after the one attempt, and
\* the record, when it exists, is persisted as failed.
C15_InvalidJobFailsFast ==
  job.attemptsMade >= 1 =>
    /\ job.state = "failed"
    /\ video.status # "absent" => video.status = "failed"

\* ------------------------------------------------------------------------
\* STTService.transcribeAudioChunk and validateAudioFile
\* (services/stt.service.js) applied to one chunk file
\* ------------------------------------------------------------------------
\* largest value of STT_MAX_RETRIES that is tried
MaxConfiguredRetries == 6

\* this.maxFileSize = 25 * 1024 * 1024
maxFileSize == 26214400

allowedExtensions ==
  {<<".", "w", "a", "v">>, <<".", "m", "p", "3">>, <<".", "m", "4", "a">>,
   <<".", "f", "l", "a", "c">>}

\* String.prototype.toLowerCase on the characters the inputs use
LowerLetters ==
  <<"a", "b", "c", "d", "e", "f", "g", "h", "i", "j", "k", "l", "m",
    "n", "o", "p", "q", "r", "s", "t", "u", "v", "w", "x", "y", "z">>

UpperLetters ==
  <<"A", "B", "C", "D", "E", "F", "G", "H", "I", "J", "K", "L", "M",
    "N", "O", "P", "Q", "R", "S", "T", "U", "V", "W", "X", "Y", "Z">>

LowerChar(c) ==
  IF \E i \in 1..26 : UpperLetters[i] = c
  THEN LowerLetters[CHOOSE i \in 1..26 : UpperLetters[i] = c]
  ELSE c

toLowerCase(str) == [k \in 1..Len(str) |-> LowerChar(str[k])]

\* String.prototype.trim
RECURSIVE TrimStart(_)
TrimStart(str) ==
  IF str # << >> /\ Head(str) = " " THEN TrimStart(Tail(str)) ELSE str

RECURSIVE TrimEnd(_)
TrimEnd(str) ==
  IF str # << >> /\ str[Len(str)] = " "
  THEN TrimEnd(SubSeq(str, 1, Len(str) - 1)) ELSE str

Trim(str) == TrimEnd(TrimStart(str))

\* this.maxRetries = parseInt(process.env.STT_MAX_RETRIES) || 3, where
\* configured = 0 also stands for a variable that is unset or not a number
maxRetriesOf(configured) == IF configured = 0 THEN 3 ELSE configured

\* the chunk files transcribeAudioChunk is called with: audioPath is a
\* string or not, the file exists or not, its size in bytes, its extension
ChunkFileInputs ==
  [ isString : BOOLEAN,
    exists : BOOLEAN,
    size : {0, 1, maxFileSize, maxFileSize + 1},
    ext : {<<".", "w", "a", "v">>, <<".", "W", "A", "V">>,
           <<".", "m", "p", "3">>, <<".", "o", "g", "g">>, << >>} ]

\* validateAudioFile: the error it throws, "" when it returns the stats
validateAudioFile(file) ==
  IF ~ file.isString THEN "Audio path must be a valid string"
  ELSE IF ~ file.exists THEN "Audio file not found"
  ELSE IF file.size = 0 THEN "Audio file is empty"
  ELSE IF file.size > maxFileSize THEN "Audio file too large"
  ELSE IF toLowerCase(file.ext) \notin allowedExtensions
  THEN "Unsupported audio format"
  ELSE ""

\* the delay before the next attempt without the cap
BackoffDelay_uncapped(attempt) == 2000 * 2 ^ (attempt - 1)

\* const delay = Math.min(2000 * Math.pow(2, attempt - 1), 30000)
BackoffDelay(attempt) == Min(2000 * 2 ^ (attempt - 1), 30000)

\* ways one axios.post can fail to give a transcription: no answer in time,
\* HTTP 5xx, HTTP 429, HTTP 4xx for an audio format the backend rejects,
\* HTTP 2xx whose body has no text
PostFailures ==
  {"timeout", "server error", "rate limit", "format rejected", "no text"}

\* response.data.text of a successful call
ResponseTexts == {<<"h", "i">>, <<" ", "h", "i", " ">>, <<" ">>}

ChunkCall(apiKey, file, configured) ==
  [ fn |-> "transcribeAudioChunk",
    apiKey |-> apiKey,
    file |-> file,
    maxRetries |-> maxRetriesOf(configured),
    pc |-> "validate",
    attempt |-> 0,
    calls |-> 0,                \* axios.post calls made
    failure |-> "none",         \* how the last call failed
    failures |-> 0,             \* calls that failed
    text |-> << >>,             \* response.data.text of the call that worked
    delays |-> << >>,           \* the setTimeout delays waited, in ms
    result |-> << >>,
    error |-> "" ]

InitChunk ==
  /\ PipelineIdle
  /\ env = "any"
  /\ \E apiKey \in BOOLEAN, file \in ChunkFileInputs,
        configured \in 0..MaxConfiguredRetries :
       call = ChunkCall(apiKey, file, configured)

\* lines 64-68 throw: no API key, or validateAudioFile rejects the file
chunkReject ==
  /\ call.fn = "transcribeAudioChunk"
  /\ call.pc = "validate"
  /\ ~ call.apiKey \/ validateAudioFile(call.file) # ""
  /\ call' = [call EXCEPT !.pc = "threw",
                          !.error = IF ~ call.apiKey
                                    THEN "Hugging Face API key not configured"
                                    ELSE validateAudioFile(call.file)]
  /\ UNCHANGED pipelineVars

\* lines 64-70: the checks pass, the loop starts with attempt = 1
chunkAccept ==
  /\ call.fn = "transcribeAudioChunk"
  /\ call.pc = "validate"
  /\ call.apiKey
  /\ validateAudioFile(call.file) = ""
  /\ call' = [call EXCEPT !.attempt = 1,
                          !.pc = IF 1 <= call.maxRetries
                                 THEN "post" ELSE "returned"]
  /\ UNCHANGED pipelineVars

\* lines 71-95: axios.post answers with a text, which is returned trimmed
chunkPostOk ==
  /\ call.fn = "transcribeAudioChunk"
  /\ call.pc = "post"
  /\ \E text \in ResponseTexts :
       call' = [call EXCEPT !.calls = @ + 1, !.text = text,
                            !.result = Trim(text), !.pc = "returned"]
  /\ UNCHANGED pipelineVars

\* lines 96-110: axios.post rejects or the body has no text; the catch
\* throws at the last attempt and otherwise starts the backoff timer
chunkPostFailed ==
  /\ call.fn = "transcribeAudioChunk"
  /\ call.pc = "post"
  /\ \E failure \in PostFailures :
       call' = IF call.attempt = call.maxRetries
               THEN [call EXCEPT !.calls = @ + 1, !.failures = @ + 1,
                                 !.failure = failure, !.pc = "threw",
                                 !.error = "STT transcription failed"]
               ELSE [call EXCEPT !.calls = @ + 1, !.failures = @ + 1,
                                 !.failure = failure, !.pc = "wait",
                                 !.delays =
                                    Append(@, BackoffDelay(call.attempt))]
  /\ UNCHANGED pipelineVars

\* the timer fires: attempt++ and the loop test
chunkRetry ==
  /\ call.fn = "transcribeAudioChunk"
  /\ call.pc = "wait"
  /\ call' = [call EXCEPT !.attempt = @ + 1,
                          !.pc = IF call.attempt + 1 <= call.maxRetries
                                 THEN "post" ELSE "returned"]
  /\ UNCHANGED pipelineVars

NextChunk ==
  \/ chunkReject
  \/ chunkAccept
  \/ chunkPostOk
  \/ chunkPostFailed
  \/ chunkRetry

SpecChunk == InitChunk /\ [][NextChunk]_vars

\* C16: a failure that is not transient (the backend rejects the audio
\* format, or answers without a text) is not retried: transcribeAudioChunk
\* only waits for another attempt after a transient failure.
C16_OnlyTransientRetried ==
  (call.fn = "transcribeAudioChunk" /\ call.pc = "wait")
     => call.failure \in {"timeout", "server error", "rate limit"}

\* the text without the blanks around it
Trimmed(text) == SelectSeq(text, LAMBDA c : c # " ")

\* C17: transcribeAudioChunk makes at most maxRetries remote calls, returns
\* the text of the first call that succeeds, waits
\* min(2000 * 2^(attempt-1), 30000) ms after failed attempt number attempt,
\* raises after the maxRetries-th failure, and rejects a chunk that is
\* missing, empty, larger than 25 MiB or of an unsupported extension
\* without any remote call.
C17_BoundedRetries ==
  call.fn = "transcribeAudioChunk" =>
    /\ call.calls <= call.maxRetries
    /\ call.pc = "returned" =>
          /\ call.failures = call.calls - 1
          /\ call.result = Trimmed(call.text)
    /\ \A a \in 1..Len(call.delays) :
          call.delays[a] = IF 2000 * 2 ^ (a - 1) < 30000
                           THEN 2000 * 2 ^ (a - 1) ELSE 30000
    /\ Len(call.delays) =
          IF call.pc \in {"wait", "threw"} /\ call.calls > 0
          THEN Min(call.failures, call.maxRetries - 1)
          ELSE call.attempt - (IF call.attempt > 0 THEN 1 ELSE 0)
    /\ (call.pc = "threw" /\ call.calls > 0) =>
          call.failures = call.maxRetries
    /\ call.failures = call.maxRetries => call.pc = "threw"
    /\ (\/ ~ call.file.exists
        \/ call.file.size = 0
        \/ call.file.size > 25 * 1024 * 1024
        \/ call.file.ext \notin
              {<<".", "w", "a", "v">>, <<".", "W", "A", "V">>,
               <<".", "m", "p", "3">>})
          => /\ call.calls = 0
             /\ call.pc \in {"validate", "threw"}

\* six attempts were made, each wait followed the schedule up to the cap,
\* and the sixth call gave the text
C17_Witness ==
  /\ call.fn = "transcribeAudioChunk"
  /\ call.pc = "returned"
  /\ call.calls = 6
  /\ call.delays = <<2000, 4000, 8000, 16000, 30000>>

\* ------------------------------------------------------------------------
\* RAGTranscriptionService.generateSummaryWithRAG and
\* generateFallbackSummary (services/transcription.service.js)
\* ------------------------------------------------------------------------
\* longest transcript, in characters
MaxTranscriptLen == 4

\* transcripts: strings of letters and blanks
RECURSIVE StringsUpTo(_)
StringsUpTo(n) ==
  IF n = 0 THEN {<< >>}
  ELSE LET shorter == StringsUpTo(n - 1)
       IN  shorter \cup {Append(str, c) : str \in shorter, c \in {"a", " "}}

\* transcript.split(/\s+/).length: one more than the number of runs of
\* blanks
splitLength(transcript) ==
  1 + Cardinality({k \in 1..Len(transcript) :
                     /\ transcript[k] = " "
                     /\ (k = 1 \/ transcript[k - 1] # " ")})

\* generateFallbackSummary: the template string and the value it embeds
generateFallbackSummary(transcript, language) ==
  [ template |-> "This ${wordCount}-word transcript contains valuable content. A detailed summary would analyze key themes and insights from the video.",
    wordCount |-> splitLength(transcript) ]

\* what can raise inside the try of generateSummaryWithRAG
SummaryFailures ==
  {"getGenerativeModel threw", "generateContent rejected",
   "response.text threw"}

SummaryCall(transcript, language) ==
  [ fn |-> "generateSummaryWithRAG",
    transcript |-> transcript,
    language |-> language,
    pc |-> "called",
    failure |-> "none",
    result |-> [template |-> "", wordCount |-> 0] ]

InitSummary ==
  /\ PipelineIdle
  /\ env = "any"
  /\ \E transcript \in StringsUpTo(MaxTranscriptLen),
        language \in {"english", "hindi"} :
       call = SummaryCall(transcript, language)

\* lines 147-163: the backend answers, the text is returned trimmed
summaryReturn ==
  /\ call.fn = "generateSummaryWithRAG"
  /\ call.pc = "called"
  /\ \E text \in ResponseTexts :
       call' = [call EXCEPT !.pc = "returned",
                            !.result = [text |-> Trim(text)]]
  /\ UNCHANGED pipelineVars

\* generateSummaryWithRAG when its catch lets the error through
summaryFallback_rethrow ==
  /\ call.fn = "generateSummaryWithRAG"
  /\ call.pc = "called"
  /\ \E failure \in SummaryFailures :
       call' = [call EXCEPT !.pc = "threw", !.failure = failure]
  /\ UNCHANGED pipelineVars

\* lines 164-167: something raised, the catch returns
\* generateFallbackSummary(transcript, language)
summaryFallback ==
  /\ call.fn = "generateSummaryWithRAG"
  /\ call.pc = "called"
  /\ \E failure \in SummaryFailures :
       call' = [call EXCEPT !.pc = "returned", !.failure = failure,
                            !.result = generateFallbackSummary(
                                          call.transcript, call.language)]
  /\ UNCHANGED pipelineVars

NextSummary ==
  \/ summaryReturn
  \/ summaryFallback

SpecSummary == InitSummary /\ [][NextSummary]_vars

\* the words of a transcript: its maximal runs of letters
Words(transcript) ==
  {k \in 1..Len(transcript) :
     /\ transcript[k] # " "
     /\ (k = 1 \/ transcript[k - 1] = " ")}

\* C18: generateSummaryWithRAG never raises; when the backend fails it
\* returns the fallback summary, which is determined by the transcript
\* alone (its split count: the words, one more for blanks at the start,
\* one more for blanks at the end, 1 for the empty transcript).
C18_SummaryAlwaysProduced ==
  call.fn = "generateSummaryWithRAG" =>
    /\ call.pc # "threw"
    /\ (call.pc = "returned" /\ call.failure # "none") =>
          /\ DOMAIN call.result = {"template", "wordCount"}
          /\ call.result.wordCount =
                IF call.transcript = << >> THEN 1
                ELSE Cardinality(Words(call.transcript))
                       + (IF Head(call.transcript) = " " THEN 1 ELSE 0)
                       + (IF call.transcript[Len(call.transcript)] = " "
                          THEN 1 ELSE 0)

\* the backend failed for a transcript of two words and the fallback
\* summary was returned
C18_Witness ==
  /\ call.fn = "generateSummaryWithRAG"
  /\ call.pc = "returned"
  /\ call.failure = "generateContent rejected"
  /\ call.transcript = <<"a", " ", "a">>
  /\ call.result.wordCount = 2

\* C19: when a transcode step of segmentation fails (extractAudio, or the
\* ffmpeg run of chunk k), the error leaves processVideoForChunking with
\* the audio track and every chunk file written so far removed: the step
\* of an attempt that ends transcribeWithSTT in an error adds no audio
\* track or chunk file to the disk.
C19_SegmentationFailureCleansUp ==
  [][\A w \in Workers :
       (/\ wk[w].pc = "stt"
        /\ wk'[w].pc = "fallback"
        /\ Leftover \notin disk)
          => Leftover \notin disk']_vars

\* C20: no attempt deletes a temporary file of another attempt, also when
\* a stale attempt and the recovery attempt overlap: while an attempt that
\* has downloaded the video is about to read it, no step of another
\* attempt removes the downloaded file.
C20_TempFilesNotShared ==
  [][\A v \in Workers :
       (/\ wk[v].pc = "stt"
        /\ wk'[v] = wk[v]
        /\ Mp4 \in disk)
          => Mp4 \in disk']_vars

\* ------------------------------------------------------------------------
\* STTService.getLanguageCode (services/stt.service.js)
\* ------------------------------------------------------------------------
\* the own properties of the object literal languageMap
languageMap ==
  (<<"e", "n", "g", "l", "i", "s", "h">> :> <<"e", "n">>) @@
  (<<"s", "p", "a", "n", "i", "s", "h">> :> <<"e", "s">>) @@
  (<<"f", "r", "e", "n", "c", "h">> :> <<"f", "r">>) @@
  (<<"g", "e", "r", "m", "a", "n">> :> <<"d", "e">>) @@
  (<<"i", "t", "a", "l", "i", "a", "n">> :> <<"i", "t">>) @@
  (<<"p", "o", "r", "t", "u", "g", "u", "e", "s", "e">> :> <<"p", "t">>) @@
  (<<"r", "u", "s", "s", "i", "a", "n">> :> <<"r", "u">>) @@
  (<<"c", "h", "i", "n", "e", "s", "e">> :> <<"z", "h">>) @@
  (<<"j", "a", "p", "a", "n", "e", "s", "e">> :> <<"j", "a">>) @@
  (<<"k", "o", "r", "e", "a", "n">> :> <<"k", "o">>) @@
  (<<"h", "i", "n", "d", "i">> :> <<"h", "i">>) @@
  (<<"a", "r", "a", "b", "i", "c">> :> <<"a", "r">>)

\* properties every object literal inherits from Object.prototype, and the
\* type of their values
ObjectPrototype ==
  (<<"c", "o", "n", "s", "t", "r", "u", "c", "t", "o", "r">> :> "function") @@
  (<<"_", "_", "p", "r", "o", "t", "o", "_", "_">> :> "object") @@
  (<<"t", "o", "S", "t", "r", "i", "n", "g">> :> "function") @@
  (<<"v", "a", "l", "u", "e", "O", "f">> :> "function")

\* languageMap[key]: an own property, else an inherited one, else undefined
PropertyOf(key) ==
  IF key \in DOMAIN languageMap THEN Str(languageMap[key])
  ELSE IF key \in DOMAIN ObjectPrototype THEN [type |-> ObjectPrototype[key]]
  ELSE Undefined

\* a || b
OrElse(a, b) == IF Truthy(a) \/ a.type = "function" THEN a ELSE b

\* return languageMap[language.toLowerCase()] || 'en'
getLanguageCode(language) ==
  OrElse(PropertyOf(toLowerCase(language)), Str(<<"e", "n">>))

\* String.prototype.toUpperCase on letters
UpperChar(c) ==
  IF \E i \in 1..26 : LowerLetters[i] = c
  THEN UpperLetters[CHOOSE i \in 1..26 : LowerLetters[i] = c]
  ELSE c

\* the ways a name is written: as it is, capitalised, in capitals, with a
\* capital at the end
Spellings(name) ==
  IF name = << >> THEN {name}
  ELSE {name,
        [k \in 1..Len(name) |-> IF k = 1 THEN UpperChar(name[k]) ELSE name[k]],
        [k \in 1..Len(name) |-> UpperChar(name[k])],
        [k \in 1..Len(name) |->
            IF k = Len(name) THEN UpperChar(name[k]) ELSE name[k]]}

\* language names that are not in languageMap
OtherLanguages ==
  {<<"k", "l", "i", "n", "g", "o", "n">>, <<"u", "n", "k", "n", "o", "w", "n">>, <<"i", "n", "v", "a", "l", "i", "d", "-", "l", "a", "n", "g", "u", "a", "g", "e">>, << >>, <<"c", "o", "n", "s", "t", "r", "u", "c", "t", "o", "r">>, <<"_", "_", "p", "r", "o", "t", "o", "_", "_">>, <<"t", "o", "s", "t", "r", "i", "n", "g">>}

LanguageInputs ==
  UNION {Spellings(name) : name \in DOMAIN languageMap \cup OtherLanguages}

InitLanguage ==
  /\ PipelineIdle
  /\ env = "any"
  /\ \E language \in LanguageInputs :
       call = [ fn |-> "getLanguageCode", language |-> language,
                pc |-> "called", result |-> Undefined ]

languageReturn ==
  /\ call.fn = "getLanguageCode"
  /\ call.pc = "called"
  /\ call' = [call EXCEPT !.pc = "returned",
                          !.result = getLanguageCode(call.language)]
  /\ UNCHANGED pipelineVars

NextLanguage == languageReturn

SpecLanguage == InitLanguage /\ [][NextLanguage]_vars

\* C21: getLanguageCode returns the code of a supported language whatever
\* the case of its name, and the default code en for every other name.
C21_LanguageCodeMapped ==
  (call.fn = "getLanguageCode" /\ call.pc = "returned") =>
     call.result =
       IF \E name \in DOMAIN languageMap :
             call.language \in Spellings(name)
       THEN Str(languageMap[CHOOSE name \in DOMAIN languageMap :
                               call.language \in Spellings(name)])
       ELSE Str(<<"e", "n">>)

\* C22: an attempt that became Active eventually ends (the job is
\* completed, failed, or back in wait after a stall), even if a remote
\* backend never answers.
C22_ActiveAttemptEnds ==
  (job.state = "active") ~> (job.state # "active")

\* C23: an attempt that reads the record in status processing is rejected
\* as a duplicate, with no download, when the record was set to processing
\* less than 30 minutes ago, and proceeds when that was 30 minutes ago or
\* more; an attempt that reads status queued or failed proceeds (a step
\* proceeds when it sets the record to processing, or fails on a remote
\* call and not on the guard).
C23_StatusGuard ==
  [][\A w \in Workers :
       (/\ wk[w].pc = "start"
        /\ wk'[w].pc \notin {"start", "idle"})
          => /\ (/\ video.status = "processing"
                 /\ procAge * TickMs < 30 * 60 * 1000)
                  => /\ wk'[w].pc = "catch"
                     /\ wk'[w].loaded => wk'[w].err = DuplicateError
                     /\ disk' = disk
             /\ (\/ video.status \in {"queued", "failed"}
                 \/ /\ video.status = "processing"
                    /\ procAge * TickMs >= 30 * 60 * 1000)
                  => \/ /\ wk'[w].pc = "step1"
                        /\ video'.status = "processing"
                     \/ /\ wk'[w].pc = "catch"
                        /\ wk'[w].err = RemoteError]_vars

\* a second attempt was rejected by the guard 15 minutes after the first
\* one set the record to processing
C23_Witness ==
  \E w \in Workers :
    /\ wk[w].pc = "catch"
    /\ wk[w].err = DuplicateError
    /\ video.status = "processing"
    /\ procAge = 1

\* C24: the chunk duration the segmenter uses is the configured value
\* clamped to [10, 300] seconds (30 when unset), and a source of
\* totalDuration > 0 gives ceil(totalDuration / chunkDuration) chunks.
C24_ChunkDurationClamped ==
  (call.fn = "splitAudioIntoChunks" /\ call.status = "returned") =>
     /\ call.chunkDuration >= 10
     /\ call.chunkDuration <= 300
     /\ Len(call.chunks) * call.chunkDuration >= call.duration
     /\ (Len(call.chunks) - 1) * call.chunkDuration < call.duration

ChunkingCall(duration, chunkDuration, maxRetries) ==
  [ fn |-> "processVideoForChunking",
    maxRetries |-> maxRetries,
    duration |-> duration,
    chunkDuration |-> chunkDuration,
    pc |-> "extractAudio",
    extractions |-> 0,      \* calls of extractAudio
    splits |-> 0,           \* calls of splitAudioIntoChunks
    audioPath |-> FALSE,    \* audioPath !== null
    i |-> 0,                \* loop index of splitAudioIntoChunks
    files |-> {} ]          \* files written and not removed

InitChunking ==
  /\ PipelineIdle
  /\ env = "any"
  /\ \E duration \in 1..MaxDuration, chunkDuration \in ChunkDurations,
        maxRetries \in {1, 3} :
       call = ChunkingCall(duration, chunkDuration, maxRetries)

\* line 106: extractAudio resolves with the path of the audio track
chunkingExtracted ==
  /\ call.fn = "processVideoForChunking"
  /\ call.pc = "extractAudio"
  /\ call' = [call EXCEPT !.pc = "splitAudioIntoChunks",
                          !.extractions = @ + 1, !.splits = @ + 1,
                          !.audioPath = TRUE, !.i = 0,
                          !.files = @ \cup {AudioFile}]
  /\ UNCHANGED pipelineVars

\* line 106 rejects (partial: ffmpeg had created its output file); after
\* the last try the catch at 116-119 cleans up [null] and re-throws
chunkingExtractFailed ==
  /\ call.fn = "processVideoForChunking"
  /\ call.pc = "extractAudio"
  /\ \E partial \in BOOLEAN :
       call' = [call EXCEPT !.pc = IF call.extractions + 1 < call.maxRetries
                                   THEN "extractAudio" ELSE "threw",
                            !.extractions = @ + 1,
                            !.files = IF partial THEN @ \cup {AudioFile}
                                      ELSE @]
  /\ UNCHANGED pipelineVars

\* splitAudioIntoChunks, iteration i: the chunk file is written
chunkingChunk ==
  /\ call.fn = "processVideoForChunking"
  /\ call.pc = "splitAudioIntoChunks"
  /\ call.i < totalChunks(call.duration, call.chunkDuration)
  /\ call' = [call EXCEPT !.i = @ + 1,
                          !.files = @ \cup {ChunkFile(call.i)}]
  /\ UNCHANGED pipelineVars

\* splitAudioIntoChunks, iteration i: ffmpeg fails; the catch at 116-119
\* cleans up [audioPath] (chunks is still []) and re-throws
chunkingChunkFailed ==
  /\ call.fn = "processVideoForChunking"
  /\ call.pc = "splitAudioIntoChunks"
  /\ call.i < totalChunks(call.duration, call.chunkDuration)
  /\ \E partial \in BOOLEAN :
       call' = [call EXCEPT !.pc = "threw",
                            !.files = (IF partial
                                       THEN @ \cup {ChunkFile(call.i)}
                                       ELSE @) \ {AudioFile}]
  /\ UNCHANGED pipelineVars

\* lines 111-115: the loop is over, the result is returned
chunkingReturn ==
  /\ call.fn = "processVideoForChunking"
  /\ call.pc = "splitAudioIntoChunks"
  /\ ~ (call.i < totalChunks(call.duration, call.chunkDuration))
  /\ call' = [call EXCEPT !.pc = "returned"]
  /\ UNCHANGED pipelineVars

NextChunking ==
  \/ chunkingExtracted
  \/ chunkingExtractFailed
  \/ chunkingChunk
  \/ chunkingChunkFailed
  \/ chunkingReturn

SpecChunking == InitChunking /\ [][NextChunking]_vars

\* C26: a segmentation failure is retried, each time from the audio
\* extraction on, and the error reaches the caller with the third failure:
\* when processVideoForChunking throws, the extraction has been run three
\* times.
C26_SegmentationRetried ==
  (call.fn = "processVideoForChunking" /\ call.pc = "threw")
     => call.extractions = 3

\* C27: rejecting an attempt as a duplicate of an attempt in flight leaves
\* the VideoRecord as it is: the step with which the rejected attempt
\* handles its own error changes no field of the record while another
\* attempt is working on the video.
C27_DuplicateRejectionLeavesRecord ==
  [][ \A w \in Workers :
        ( /\ wk[w].pc = "catch"
          /\ wk[w].err = DuplicateError
          /\ wk'[w].pc = "finish"
          /\ \E v \in Workers \ {w} : Processing(v) )
        => video' = video ]_vars

\* C28: once the job has reached the terminal failed state of the queue
\* (attempts used up by errors, or stalled more often than maxStalledCount
\* allows), the VideoRecord of its video has status failed; in particular
\* it is not left in status processing.
C28_FailedJobFailedRecord ==
  job.state = "failed" => video.status = "failed"

\* C29: every VideoRecord that uploadVideo leaves in status queued has its
\* job in the processing queue; a failure to add the job leaves no queued
\* record without a job.
C29_QueuedRecordHasJob ==
  video.status = "queued" => job.state # "none"

\* C30: on every exit path of processVideo, the calls of atomicVideoUpdate
\* it makes included, every MongoDB session that was started has been
\* ended: when processVideo has settled no session of the execution is
\* open.
C30_SessionsEnded ==
  \A w \in Workers : wk[w].pc = "finish" => wk[w].openSessions = 0

====
